---- MODULE Spec2Model ----
\* Query page of the SQL agent client (frontend/src/pages/Query.tsx), its API
\* client (lib/api) and the server-side safety gate it talks to.
\*
\* Texts (SQL, questions) are sequences of tokens so that trim(), the leading
\* keyword and statement terminators are computed, not assumed.
EXTENDS Integers, Sequences, FiniteSets, TLC

\* ------------------------------------------------------------------ bounds
\* Largest number of handler invocations awaiting a response at one time.
MaxInFlight == 1
\* handler calls in flight at most, where only the connection bar is exercised
MaxSchemaCalls == 2
\* handler calls in flight at most, where questions race
MaxRaceCalls == 2
\* Largest number of user gestures (selections, edits, clicks) in a session.
MaxGestures == 4
\* Largest number of gestures when the connection <select> is used during a run.
MaxRunGestures == 5

\* ------------------------------------------------------------- JS values
\* JavaScript `undefined` for a text, `undefined` and `null` for a scalar.
Undef == <<"<undefined>">>
NoStr == "<undefined>"
NullStr == "<null>"
EmptyText == <<>>

TruthyText(s) == s # Undef /\ s # EmptyText
\* Numbers typed in a number input are written "#n"; 0 is falsy like "".
TruthyVal(v) == v \notin {NoStr, NullStr, "", "#0"}

\* `a || b` on texts and on scalars
OrText(a, b) == IF TruthyText(a) THEN a ELSE b
OrVal(a, b) == IF TruthyVal(a) THEN a ELSE b

\* ------------------------------------------------------------ String.trim
IsSpace(tok) == tok = " "

RECURSIVE TrimLeft(_)
TrimLeft(s) ==
  IF s = <<>> THEN <<>>
  ELSE IF IsSpace(Head(s)) THEN TrimLeft(Tail(s)) ELSE s

RECURSIVE TrimRight(_)
TrimRight(s) ==
  IF s = <<>> THEN <<>>
  ELSE IF IsSpace(s[Len(s)]) THEN TrimRight(SubSeq(s, 1, Len(s) - 1)) ELSE s

Trim(s) == TrimRight(TrimLeft(s))

\* --------------------------------------------------------------- the data
Conns == {1, 2}
NoConn == 0
\* Connection.is_readonly of the registered connections
IsReadonly(c) == c = 1

T_sel == <<"SELECT", "t">>
T_selws == <<"SELECT", "t", " ">>
T_del == <<"DELETE", "t">>
T_multi == <<"SELECT", "t", ";", "DELETE", "t">>
T_delmulti == <<"DELETE", "t", ";", "DROP", "t">>
T_with == <<" ", "with", "'", ";", "t", "'", ";">>
T_blank == <<" ">>

\* what the generation model may produce, and what the user may type
GenSqls == {T_sel, T_del}
EditorTexts == {T_sel, T_selws, T_del, T_multi, T_delmulti, T_with, T_blank}

Q1 == <<"q1">>
Q2 == <<"q2", " ">>
Questions == {Q1, Q2}

\* ------------------------------------------------- Safety Validator (4.5)
Upper(tok) ==
  CASE tok = "select" -> "SELECT"
    [] tok = "with" -> "WITH"
    [] tok = "explain" -> "EXPLAIN"
    [] tok = "delete" -> "DELETE"
    [] tok = "drop" -> "DROP"
    [] OTHER -> tok

ReadKeywords == {"SELECT", "WITH", "EXPLAIN"}

LeadingKeyword(s) ==
  LET t == TrimLeft(s) IN IF t = <<>> THEN "" ELSE Upper(Head(t))

\* A terminator outside a string literal, followed by more statement text.
RECURSIVE ScanSecond(_, _, _)
ScanSecond(s, inQuote, afterTerm) ==
  IF s = <<>> THEN FALSE
  ELSE LET tok == Head(s) IN
    IF tok = "'" THEN (afterTerm /\ ~inQuote) \/ ScanSecond(Tail(s), ~inQuote, afterTerm)
    ELSE IF inQuote THEN ScanSecond(Tail(s), inQuote, afterTerm)
    ELSE IF tok = ";" THEN ScanSecond(Tail(s), inQuote, TRUE)
    ELSE IF IsSpace(tok) THEN ScanSecond(Tail(s), inQuote, afterTerm)
    ELSE afterTerm \/ ScanSecond(Tail(s), inQuote, afterTerm)

HasSecondStatement(s) == ScanSecond(s, FALSE, FALSE)

ReadOnlyApplies(conn, s) == IsReadonly(conn) /\ LeadingKeyword(s) \notin ReadKeywords

\* Variants of the gate with one of its two checks weakened.
RejectReasons_ReadOnlyUnchecked(conn, s) ==
  IF HasSecondStatement(s) THEN {"MultiStatementRejected"} ELSE {}

RejectReasons_MultiOnlyWhenReadonly(conn, s) ==
  (IF ReadOnlyApplies(conn, s) THEN {"ReadOnlyViolation"} ELSE {})
    \cup (IF IsReadonly(conn) /\ HasSecondStatement(s)
           THEN {"MultiStatementRejected"} ELSE {})

\* The rejection reasons that apply to a statement; ALLOW when there is none.
\* The order in which the two checks run is not fixed, so a statement to
\* which both apply is rejected with either reason.
RejectReasons(conn, s) ==
  (IF ReadOnlyApplies(conn, s) THEN {"ReadOnlyViolation"} ELSE {})
    \cup (IF HasSecondStatement(s) THEN {"MultiStatementRejected"} ELSE {})

\* ------------------------------------------------- parameters (4.3, 6)
PYear == [name |-> "year", type |-> "number", required |-> TRUE, default |-> NoStr]
PSince == [name |-> "since", type |-> "date", required |-> FALSE, default |-> NullStr]
ParamNames == {"year", "since"}
\* the same two parameters with defaults supplied: the number 0 and a date
PYearZero == [PYear EXCEPT !.default = "#0"]
PSinceGiven == [PSince EXCEPT !.default = "2020-01-01"]
\* detect-parameters answers with no parameter, with a required and an
\* optional one, with defaults, or with an optional one alone
ParamLists == {<<>>, <<PYear, PSince>>, <<PYearZero, PSinceGiven>>, <<PSince>>}
\* new Date().toISOString().split('T')[0]
Today == "2026-11-03"
\* paramValues: absent keys hold NoStr
NoParamValues == [n \in ParamNames |-> NoStr]

\* A default taken only when it is truthy: if (p.default) ...
DefaultOf_Truthy(p, acc) ==
  IF TruthyVal(p.default) THEN [acc EXCEPT ![p.name] = p.default]
  ELSE IF p.type = "date" THEN [acc EXCEPT ![p.name] = Today]
  ELSE acc

\* the body of handleSubmit's forEach: one parameter's entry in defaults
DefaultOf(p, acc) ==
  IF p.default # NullStr /\ p.default # NoStr THEN [acc EXCEPT ![p.name] = p.default]
  ELSE IF p.type = "date" THEN [acc EXCEPT ![p.name] = Today]
  ELSE acc

\* handleSubmit's forEach over paramResult.parameters
RECURSIVE ParamDefaults(_, _)
ParamDefaults(ps, acc) ==
  IF ps = <<>> THEN acc
  ELSE ParamDefaults(Tail(ps), DefaultOf(Head(ps), acc))

\* what the onChange of a parameter input can store
InputValues(p) == IF p.type = "number" THEN {"#7", "#0"} ELSE {""}

\* detectedParams.some(p => p.required && !paramValues[p.name])
RequiredMissing(ps, vals) ==
  \E i \in 1..Len(ps) : ps[i].required /\ ~TruthyVal(vals[ps[i].name])

\* ------------------------------------------------------ results and calls
NoData == <<>>
\* columns/rows/row_count/execution_time_ms of one execution: n rows of sql on conn
Data(conn, sql, n) == <<conn, sql, n>>
HasRows(d) == d # NoData /\ d[3] > 0

\* AskResponse | null.  History fields ride along: run, the submission whose
\* handler built the result, askedNl, the question of
\* the ask request that produced sql, and by, the call that wrote the result last.
NullResult ==
  [isNull |-> TRUE, sql |-> Undef, explanation |-> NoStr, data |-> NoData, error |-> NoStr,
   askedNl |-> Undef, by |-> 0, run |-> 0]
MkResult(sql, explanation, data, error, c) ==
  [isNull |-> FALSE, sql |-> sql, explanation |-> explanation, data |-> data, error |-> error,
   askedNl |-> c.nl, by |-> c.id, run |-> c.run]

\* result?.sql, the dependency of the sync effect
DepSql(r) == IF r.isNull THEN Undef ELSE r.sql

NoSchema == [conn |-> NoConn, tables |-> <<>>]
\* a complete introspection of a connection; the server's schema may have
\* changed between two introspections
SchemaVersions == {1, 2}
Snapshot(conn, v) == [conn |-> conn, tables |-> [i \in 1..v |-> <<"t", conn, i>>]]
Snapshots == {Snapshot(conn, v) : conn \in Conns, v \in SchemaVersions}
SuggLists == {<<>>, <<Q1>>}
VizLists == {<<>>, <<"line">>}

NoExec == [conn |-> NoConn, sql |-> Undef]

VARIABLES
  connections, selectedConnection, schema, loadingSchema, suggestions,
  query, loading, result, chartSuggestions, chartType,
  editableSql, isEditing,
  detectedParams, paramValues, showParamDialog, pendingQuery,
  dialogRun,    \* the run whose detect-parameters response opened the dialog
  calls,        \* handler invocations awaiting a response, with their closures
  engineLog,    \* the statement the Execution Engine ran last (the spy)
  lastEvent,    \* what the last step was: the response a call just received
  gestures,     \* number of user gestures so far
  submitted,    \* the connection each question was submitted on, by run
  connectionsPage,  \* the state of ConnectionsPage and its calls in flight
  backend,          \* the connection records the server stores
  historyPage,      \* the state of HistoryPage and its calls in flight
  favorites,        \* the favorite flag the server stores for each history entry
  session,          \* localStorage, the auth store, the route and the requests in flight
  chart,            \* the columns and rows of a result and the chartData derived from them
  tests             \* ConnectionsPage: testResults, testing and the tests in flight

\* the pages other than QueryPage
connectionsVars == <<connectionsPage, backend>>
historyVars == <<historyPage, favorites>>
otherPages == <<connectionsVars, historyVars, session, chart, tests>>

pageVars == <<connections, selectedConnection, schema, loadingSchema, suggestions>>
askVars == <<query, loading, result, chartSuggestions, chartType>>
editVars == <<editableSql, isEditing>>
paramVars == <<detectedParams, paramValues, showParamDialog, pendingQuery, dialogRun>>
vars ==
  <<pageVars, askVars, editVars, paramVars, calls, engineLog, lastEvent, gestures, submitted,
    otherPages>>

BlankCall(id, kind, pc, conn) ==
  [id |-> id, kind |-> kind, pc |-> pc, conn |-> conn, nl |-> EmptyText,
   hasParams |-> FALSE, params |-> NoParamValues,
   clEditableSql |-> EmptyText, clIsEditing |-> FALSE, clResultSql |-> Undef,
   clQuery |-> EmptyText, clAskedNl |-> Undef, run |-> 0]

FreeId == CHOOSE i \in 1..(MaxInFlight + MaxSchemaCalls) : \A c \in calls : c.id # i
CanStartWithin(n) == Cardinality(calls) < n
CanStart == CanStartWithin(MaxInFlight)
CanGestureUpTo(g) == gestures < g
CanGesture == CanGestureUpTo(MaxGestures)

\* lastEvent: the gesture, or the response (to which call, awaiting what, how
\* it ended and what it said), that the last step handled
\* body: the sql and explanation of the response body of a failed ask
NoBody == [sql |-> Undef, explanation |-> NoStr]
NoEvent ==
  [kind |-> "none", pc |-> "none", outcome |-> "none", detail |-> NoStr, body |-> NoBody]
Event(c, outcome, detail) ==
  [NoEvent EXCEPT !.kind = c.kind, !.pc = c.pc, !.outcome = outcome, !.detail = detail]
GestureUpTo(name, g) ==
  /\ CanGestureUpTo(g)
  /\ gestures' = gestures + 1
  /\ submitted' = IF name = "ui:submit"
                    THEN [submitted EXCEPT ![gestures + 1] = selectedConnection]
                    ELSE submitted
  /\ UNCHANGED otherPages
  /\ lastEvent' = [NoEvent EXCEPT !.kind = name, !.pc = "ui"]
Gesture(name) == GestureUpTo(name, MaxGestures)

\* The body each request of lib/api carries, from the awaiting call.
NoRequest ==
  [path |-> "none", connection_id |-> NoConn, natural_language |-> EmptyText, sql |-> Undef,
   original_sql |-> Undef, corrected_sql |-> Undef, hasParams |-> FALSE,
   parameters |-> NoParamValues]
Request(c) ==
  CASE c.pc = "detect" ->
         [NoRequest EXCEPT !.path = "/query/detect-parameters", !.connection_id = c.conn,
                           !.natural_language = c.nl]
    [] c.pc = "ask" ->
         [NoRequest EXCEPT !.path = "/query/ask", !.connection_id = c.conn,
                           !.natural_language = c.nl, !.hasParams = c.hasParams,
                           !.parameters = c.params]
    [] c.pc = "execute" ->
         [NoRequest EXCEPT !.path = "/query/execute", !.connection_id = c.conn,
                           !.sql = Trim(c.clEditableSql)]
    [] c.pc = "feedback" ->
         [NoRequest EXCEPT !.path = "/query/feedback", !.connection_id = c.conn,
                           !.natural_language = c.clQuery, !.original_sql = c.clResultSql,
                           !.corrected_sql = Trim(c.clEditableSql)]
    [] OTHER -> [NoRequest EXCEPT !.path = c.pc, !.connection_id = c.conn]

\* ------------------------------------------------ ConnectionsPage: data
MaxStored == 1
MaxPageCalls == 1

ConnNames == {"a", "b"}
TypedPasswords == {"pw1", "pw2"}

\* the credential as the server stores it; it is never returned
Encrypt(pw) == <<"enc", pw>>
NoSecret == <<"none">>

\* resetForm, and the initial formData
BlankForm == [name |-> "", password |-> ""]

\* a slot of the server's table that holds no connection
NoRecord == [name |-> NoStr, secret |-> NoSecret]
BackendInit == [id \in 1..MaxStored |-> NoRecord]

\* Connection as the server returns it: credentials redacted
Redacted(store) ==
  {[id |-> id, name |-> store[id].name] :
     id \in {i \in DOMAIN store : store[i] # NoRecord}}

\* a request of ConnectionsPage in flight: the endpoint, the connection it
\* targets and the JSON body (formData as it was when the form was submitted)
PageCall(tag, kind, id, body) == [tag |-> tag, kind |-> kind, id |-> id, body |-> body]

ConnectionsPageInit ==
  [connections |-> {}, loading |-> TRUE, showModal |-> FALSE,
   editingConnection |-> NoConn, formData |-> BlankForm,
   calls |-> {PageCall(1, "list", NoConn, BlankForm)}]

\* ---------------------------------------------------- HistoryPage: data
MaxEntries == 2
MaxHistoryCalls == 2
MaxToggles == 3

HistoryIds == 1..MaxEntries

\* the favorite flag the server stores for each entry when the page is opened
OriginalFavorite(id) == id = 2

\* QueryHistory as the server returns it
HistoryEntry(id, fav) ==
  [id |-> id, generated_sql |-> <<"SELECT", id>>, status |-> "success", is_favorite |-> fav]

\* GET /query/history
HistoryList(favs) == [i \in HistoryIds |-> HistoryEntry(i, favs[i])]

HistoryPageInit ==
  [history |-> <<>>, loading |-> TRUE,
   calls |-> {[tag |-> 1, kind |-> "fetchData", id |-> 0, history |-> <<>>]},
   started |-> 0,
   completed |-> [i \in HistoryIds |-> 0],
   overlapped |-> [i \in HistoryIds |-> FALSE],
   returned |-> [i \in HistoryIds |-> OriginalFavorite(i)]]

\* ------------------------------------------- login, logout and the token
MaxLogins == 2
MaxSessionCalls == 2

\* the token a visit of some earlier day left in localStorage
StaleToken == "t0"
\* the access_token the n-th login call returns
AccessToken(n) == IF n = 1 THEN "t1" ELSE IF n = 2 THEN "t2" ELSE "t3"

\* api.interceptors.request: Authorization is set if localStorage holds a token
NoHeader == <<>>
Bearer(token) == <<"Bearer", token>>
Interceptor(localToken) == IF TruthyVal(localToken) THEN Bearer(localToken) ELSE NoHeader

\* a request in flight: what awaits it, the Authorization header it was sent
\* with, the token its continuation holds, and (login) the token the last
\* successful login call had returned when it was sent
SessionCall(tag, kind, header, closure, login) ==
  [tag |-> tag, kind |-> kind, authorization |-> header, token |-> closure, login |-> login]

\* the page is loaded at /login; App's mount effect validates the stored token
\* (ended is history: how the last handleLogout finished)
SessionInit ==
  [localToken |-> StaleToken, user |-> NoStr, token |-> StaleToken,
   route |-> "/login", loading |-> FALSE, error |-> "",
   calls |-> {SessionCall(1, "validate", Interceptor(StaleToken), StaleToken, NoStr)},
   login |-> NoStr, logins |-> 0, ended |-> "none"]

\* ------------------------------------------------------------ chartData
\* Largest number of columns and of rows of a result table.
MaxColumns == 2
MaxRows == 2

ColumnNames == {"id", "n"}
Cells == {1, 2, 3}

\* obj[col] = value on a JavaScript object
SetKey(obj, col, value) ==
  [k \in DOMAIN obj \cup {col} |-> IF k = col THEN value ELSE obj[k]]

\* result.columns.forEach((col, i) => { obj[col] = row[i] }), from index i on
RECURSIVE ForEachColumn(_, _, _, _)
ForEachColumn(obj, columns, row, i) ==
  IF i > Len(columns) THEN obj
  ELSE ForEachColumn(SetKey(obj, columns[i], row[i]), columns, row, i + 1)

EmptyObject == [k \in {} |-> 0]

\* result.rows.map(row => { const obj = {}; ...; return obj })
ChartData(columns, rows) ==
  [r \in 1..Len(rows) |-> ForEachColumn(EmptyObject, columns, rows[r], 1)]

\* the sequences over S of length at most n
SeqsUpTo(S, n) == UNION {[1..k -> S] : k \in 0..n}

\* the table of a result and the chartData a render computes from it;
\* without a result chartData is []
Charted(columns, rows) ==
  [hasResult |-> TRUE, columns |-> columns, rows |-> rows,
   chartData |-> ChartData(columns, rows)]
ChartInit == [hasResult |-> FALSE, columns |-> <<>>, rows |-> <<>>, chartData |-> <<>>]

\* ------------------------------------- ConnectionsPage: Test Connection
\* Largest number of tests started, and of tests awaiting their response.
MaxTests == 3
MaxTestCalls == 2

\* { success, message } of POST /connections/:id/test
TestResponses ==
  {[success |-> TRUE, message |-> "Connection successful"],
   [success |-> FALSE, message |-> "refused"]}
\* err.response?.data?.detail of a rejected request; undefined without a response
TestDetails == {NoStr, "Connection not found"}
NoTestResult == [success |-> FALSE, message |-> NoStr]

\* the page with the list not yet loaded; started and latest are history:
\* the number of tests started, and for each connection the number and the
\* outcome of the test started last among those that have completed
TestsInit ==
  [connections |-> {}, testResults |-> [id \in Conns |-> NoTestResult], testing |-> NoConn,
   calls |-> {}, started |-> 0,
   latest |-> [id \in Conns |-> [test |-> 0, outcome |-> NoTestResult]]]

Init ==
  /\ connections = {}
  /\ selectedConnection = NoConn
  /\ schema = NoSchema
  /\ loadingSchema = FALSE
  /\ suggestions = <<>>
  /\ query = EmptyText
  /\ loading = FALSE
  /\ result = NullResult
  /\ chartSuggestions = <<>>
  /\ chartType = "bar"
  /\ editableSql = EmptyText
  /\ isEditing = FALSE
  /\ detectedParams = <<>>
  /\ paramValues = NoParamValues
  /\ showParamDialog = FALSE
  /\ pendingQuery = EmptyText
  /\ dialogRun = 0
  /\ calls = {BlankCall(1, "fetchConnections", "list", NoConn)}
  /\ engineLog = NoExec
  /\ lastEvent = NoEvent
  /\ gestures = 0
  /\ submitted = [run \in 1..MaxGestures |-> NoConn]
  /\ connectionsPage = ConnectionsPageInit
  /\ backend = BackendInit
  /\ historyPage = HistoryPageInit
  /\ favorites = [i \in HistoryIds |-> OriginalFavorite(i)]
  /\ session = SessionInit
  /\ chart = ChartInit
  /\ tests = TestsInit

\* setResult(r) followed by the effect on [result?.sql]
SetResult(r) ==
  /\ result' = r
  /\ IF DepSql(r) # DepSql(result) /\ TruthyText(r.sql)
       THEN editableSql' = r.sql /\ isEditing' = FALSE
       ELSE UNCHANGED editVars

\* ------------------------------------------------ connections and schema
\* handleSelectConnection up to its first await
SelectBody(conn, id) ==
  /\ selectedConnection' = conn
  /\ loadingSchema' = TRUE
  /\ schema' = NoSchema
  /\ SetResult(NullResult)
  /\ suggestions' = <<>>
  /\ UNCHANGED <<query, loading, chartSuggestions, chartType, paramVars, engineLog>>

\* fetchConnections resolves; the effect on [connections, initialConnectionId]
\* then selects the connection named in the URL, if any.
FetchConnectionsOk ==
  \E c \in calls : \E initial \in {NoConn} \cup Conns :
    /\ c.pc = "list"
    /\ connections' = Conns
    /\ lastEvent' = Event(c, "ok", NoStr)
    /\ IF initial # NoConn
         THEN /\ SelectBody(initial, c.id)
              /\ calls' = (calls \ {c}) \cup {BlankCall(c.id, "select", "getSchema", initial)}
         ELSE /\ calls' = calls \ {c}
              /\ UNCHANGED <<selectedConnection, schema, loadingSchema, suggestions,
                             askVars, editVars, paramVars, engineLog>>
    /\ UNCHANGED <<gestures, submitted, otherPages>>

FetchConnectionsFail ==
  \E c \in calls :
    /\ c.pc = "list"
    /\ calls' = calls \ {c}
    /\ lastEvent' = Event(c, "fail", "Network Error")
    /\ UNCHANGED <<pageVars, askVars, editVars, paramVars, engineLog, gestures, submitted, otherPages>>

\* the connection <select> onChange
SelectConnectionUpTo(n, g) ==
  \E conn \in connections :
    /\ CanStartWithin(n)
    /\ GestureUpTo("ui:selectConnection", g)
    /\ SelectBody(conn, FreeId)
    /\ calls' = calls \cup {BlankCall(FreeId, "select", "getSchema", conn)}
    /\ UNCHANGED connections

SelectConnectionWithin(n) == SelectConnectionUpTo(n, MaxGestures)
SelectConnection == SelectConnectionWithin(MaxInFlight)

GetSchemaOk ==
  \E c \in calls : \E v \in SchemaVersions :
    /\ c.pc = "getSchema"
    /\ schema' = Snapshot(c.conn, v)
    /\ calls' = (calls \ {c}) \cup {[c EXCEPT !.pc = "suggestions"]}
    /\ lastEvent' = Event(c, "ok", NoStr)
    /\ UNCHANGED <<connections, selectedConnection, loadingSchema, suggestions,
                   askVars, editVars, paramVars, engineLog, gestures, submitted, otherPages>>

GetSchemaFail ==
  \E c \in calls :
    /\ c.pc = "getSchema"
    /\ loadingSchema' = FALSE
    /\ calls' = calls \ {c}
    /\ lastEvent' = Event(c, "fail", "Network Error")
    /\ UNCHANGED <<connections, selectedConnection, schema, suggestions,
                   askVars, editVars, paramVars, engineLog, gestures, submitted, otherPages>>

SuggestionsOk ==
  \E c \in calls : \E sugg \in SuggLists :
    /\ c.pc = "suggestions"
    /\ suggestions' = sugg
    /\ loadingSchema' = FALSE
    /\ calls' = calls \ {c}
    /\ lastEvent' = Event(c, "ok", NoStr)
    /\ UNCHANGED <<connections, selectedConnection, schema,
                   askVars, editVars, paramVars, engineLog, gestures, submitted, otherPages>>

SuggestionsFail ==
  \E c \in calls :
    /\ c.pc = "suggestions"
    /\ loadingSchema' = FALSE
    /\ calls' = calls \ {c}
    /\ lastEvent' = Event(c, "fail", "Network Error")
    /\ UNCHANGED <<connections, selectedConnection, schema, suggestions,
                   askVars, editVars, paramVars, engineLog, gestures, submitted, otherPages>>

\* handleRefreshSchema up to its await; the button is shown with a connection
\* selected and disabled while loadingSchema
handleRefreshSchemaWithin(n) ==
  /\ selectedConnection # NoConn
  /\ ~loadingSchema
  /\ CanStartWithin(n)
  /\ Gesture("ui:refreshSchema")
  /\ loadingSchema' = TRUE
  /\ calls' = calls \cup {BlankCall(FreeId, "refresh", "refreshSchema", selectedConnection)}
  /\ UNCHANGED <<connections, selectedConnection, schema, suggestions,
                 askVars, editVars, paramVars, engineLog>>

handleRefreshSchema == handleRefreshSchemaWithin(MaxInFlight)

\* A refresh that patches the tables into the snapshot held.
RefreshOk_Patches ==
  \E c \in calls : \E v \in SchemaVersions :
    /\ c.pc = "refreshSchema"
    /\ schema' = [schema EXCEPT !.tables = Snapshot(c.conn, v).tables]
    /\ loadingSchema' = FALSE
    /\ calls' = calls \ {c}
    /\ lastEvent' = Event(c, "ok", NoStr)
    /\ UNCHANGED <<connections, selectedConnection, suggestions,
                   askVars, editVars, paramVars, engineLog, gestures, submitted, otherPages>>

\* refresh-schema answers
RefreshOk ==
  \E c \in calls : \E v \in SchemaVersions :
    /\ c.pc = "refreshSchema"
    /\ schema' = Snapshot(c.conn, v)
    /\ loadingSchema' = FALSE
    /\ calls' = calls \ {c}
    /\ lastEvent' = Event(c, "ok", NoStr)
    /\ UNCHANGED <<connections, selectedConnection, suggestions,
                   askVars, editVars, paramVars, engineLog, gestures, submitted, otherPages>>

RefreshFail ==
  \E c \in calls :
    /\ c.pc = "refreshSchema"
    /\ loadingSchema' = FALSE
    /\ calls' = calls \ {c}
    /\ lastEvent' = Event(c, "fail", "Network Error")
    /\ UNCHANGED <<connections, selectedConnection, schema, suggestions,
                   askVars, editVars, paramVars, engineLog, gestures, submitted, otherPages>>

\* ------------------------------------------------------ the question box
SetQuery ==
  \E q \in Questions :
    /\ selectedConnection # NoConn
    /\ q # query
    /\ Gesture("ui:setQuery")
    /\ query' = q
    /\ UNCHANGED <<pageVars, loading, result, chartSuggestions, chartType,
                   editVars, paramVars, calls, engineLog>>

SuggestionVisible == Len(suggestions) > 0 /\ result.isNull /\ ~showParamDialog

handleSuggestionClick ==
  \E i \in 1..Len(suggestions) :
    /\ SuggestionVisible
    /\ suggestions[i] # query
    /\ Gesture("ui:suggestionClick")
    /\ query' = suggestions[i]
    /\ UNCHANGED <<pageVars, loading, result, chartSuggestions, chartType,
                   editVars, paramVars, calls, engineLog>>

\* A handleSubmit that does not await detection before asking.
SubmitCalls_FanOut ==
  {[BlankCall(FreeId, "submit", "detect", selectedConnection)
      EXCEPT !.nl = Trim(query), !.run = gestures + 1],
   [BlankCall(MaxInFlight + 2, "submit", "ask", selectedConnection)
      EXCEPT !.nl = Trim(query), !.run = gestures + 1]}

\* The request handleSubmit starts with: detectParameters(selectedConnection.id, query.trim())
SubmitCalls ==
  {[BlankCall(FreeId, "submit", "detect", selectedConnection)
      EXCEPT !.nl = Trim(query), !.run = gestures + 1]}

\* handleSubmit up to the detect-parameters await.  The Send button is
\* disabled while loading; the Enter key calls the handler regardless.
handleSubmitWithin(n) ==
  \E via \in {"button", "enter"} :
    /\ via = "button" => ~loading
    /\ selectedConnection # NoConn
    /\ Trim(query) # EmptyText
    /\ CanStartWithin(n)
    /\ Gesture("ui:submit")
    /\ loading' = TRUE
    /\ SetResult(NullResult)
    /\ chartSuggestions' = <<>>
    /\ detectedParams' = <<>>
    /\ showParamDialog' = FALSE
    /\ calls' = calls \cup SubmitCalls
    /\ UNCHANGED <<pageVars, query, chartType, paramValues, pendingQuery, dialogRun,
                   engineLog>>

handleSubmit == handleSubmitWithin(MaxInFlight)

\* The condition without its length test.
OpensDialog_IgnoresLength(needs, ps) == needs

\* paramResult.needs_parameters && paramResult.parameters.length > 0
OpensDialog(needs, ps) == needs /\ Len(ps) > 0

DetectSummary(needs, ps) ==
  IF ~needs THEN "no-parameters"
  ELSE IF Len(ps) = 0 THEN "needs-empty" ELSE "needs-some"

\* detect-parameters answers
DetectOk ==
  \E c \in calls : \E needs \in BOOLEAN : \E ps \in ParamLists :
    /\ c.pc = "detect"
    /\ lastEvent' = Event(c, "ok", DetectSummary(needs, ps))
    /\ IF OpensDialog(needs, ps)
         THEN /\ detectedParams' = ps
              /\ dialogRun' = c.run
              /\ paramValues' = ParamDefaults(ps, NoParamValues)
              /\ pendingQuery' = c.nl
              /\ showParamDialog' = TRUE
              /\ loading' = FALSE
              /\ calls' = calls \ {c}
         ELSE \* executeWithParams(query.trim(), null) up to the ask await
              /\ loading' = TRUE
              /\ showParamDialog' = FALSE
              /\ calls' = (calls \ {c}) \cup {[c EXCEPT !.pc = "ask"]}
              /\ UNCHANGED <<detectedParams, paramValues, pendingQuery, dialogRun>>
    /\ UNCHANGED <<pageVars, query, result, chartSuggestions, chartType, editVars,
                   engineLog, gestures, submitted, otherPages>>

\* A rejected promise of axios: the response body if the server answered
\* (fields it lacks are undefined), and err.message.
NetworkFailure ==
  [http |-> "none", sql |-> Undef, explanation |-> NoStr, data |-> NoData,
   error |-> NoStr, detail |-> NoStr, message |-> "Network Error", ran |-> Undef]
HttpFailure(detail) ==
  [NetworkFailure EXCEPT !.http = "error", !.detail = detail,
                         !.message = "Request failed with status code 500"]

\* responseData?.error || responseData?.detail || err.message || fallback
FailText(f, fallback) == OrVal(OrVal(OrVal(f.error, f.detail), f.message), fallback)

\* A catch block that reports the error alone.
FailResult_ErrorOnly(f, c) ==
  MkResult(EmptyText, "", NoData, FailText(f, "Query failed"), c)

\* the result both catch blocks of the ask path build
FailResult(f, c) ==
  MkResult(OrText(f.sql, EmptyText), OrVal(f.explanation, ""), NoData,
           FailText(f, "Query failed"), c)

\* detect-parameters fails: the catch of handleSubmit
DetectFail ==
  \E c \in calls : \E f \in {NetworkFailure, HttpFailure("Timeout")} :
    /\ c.pc = "detect"
    /\ lastEvent' = Event(c, "fail", FailText(f, "Query failed"))
    /\ SetResult(FailResult(f, c))
    /\ loading' = FALSE
    /\ calls' = calls \ {c}
    /\ UNCHANGED <<pageVars, query, chartSuggestions, chartType, paramVars,
                   engineLog, gestures, submitted, otherPages>>

\* ------------------------------------------- the server's side of /query/ask
\* generate (4.4), validate (4.5), execute (4.6); `ran` is the statement
\* handed to the Execution Engine, if any.
AskOutcomes(conn) ==
  {[HttpFailure(NoStr) EXCEPT !.error = "GenerationError", !.sql = partial,
                              !.explanation = expl] :
      partial \in {Undef, T_sel}, expl \in {NoStr, "partial"}}
  \cup {NetworkFailure}
  \cup UNION {
       {[NetworkFailure EXCEPT !.http = http, !.sql = sql, !.explanation = "expl",
                               !.error = reason, !.message = NoStr] :
           reason \in RejectReasons(conn, sql), http \in {"200", "error"}}
       \cup (IF RejectReasons(conn, sql) # {} THEN {} ELSE
          {[NetworkFailure EXCEPT !.http = "200", !.sql = sql, !.explanation = "expl",
                                  !.data = Data(conn, sql, n), !.message = NoStr,
                                  !.ran = sql] : n \in {0, 1}}
          \cup {[NetworkFailure EXCEPT !.http = "error", !.sql = sql, !.explanation = "expl",
                                  !.error = "ExecutionError", !.ran = sql]})
       : sql \in GenSqls}

Ran(conn, o) == IF o.ran = Undef THEN engineLog ELSE [conn |-> conn, sql |-> o.ran]

\* /query/ask answers 2xx: the try block of executeWithParams
AskOk ==
  \E c \in calls : \E o \in AskOutcomes(c.conn) :
    /\ c.pc = "ask"
    /\ o.http = "200"
    /\ engineLog' = Ran(c.conn, o)
    /\ lastEvent' = Event(c, "ok", o.error)
    /\ SetResult(MkResult(o.sql, o.explanation, o.data, o.error, c))
    /\ IF HasRows(o.data)
         THEN /\ calls' = (calls \ {c}) \cup {[c EXCEPT !.pc = "viz"]}
              /\ UNCHANGED loading
         ELSE /\ calls' = calls \ {c}
              /\ loading' = FALSE
    /\ UNCHANGED <<pageVars, query, chartSuggestions, chartType, paramVars, gestures, submitted, otherPages>>

\* A catch block that sends the ask request again.
AskFail_Retries ==
  \E c \in calls : \E o \in AskOutcomes(c.conn) :
    /\ c.pc = "ask"
    /\ o.http # "200"
    /\ engineLog' = Ran(c.conn, o)
    /\ lastEvent' = [Event(c, "fail", FailText(o, "Query failed"))
                       EXCEPT !.body = [sql |-> o.sql, explanation |-> o.explanation]]
    /\ SetResult(FailResult(o, c))
    /\ loading' = TRUE
    /\ calls' = (calls \ {c}) \cup {[c EXCEPT !.id = FreeId]}
    /\ UNCHANGED <<pageVars, query, chartSuggestions, chartType, paramVars, gestures, submitted, otherPages>>

\* /query/ask fails: the catch block of executeWithParams
AskFail ==
  \E c \in calls : \E o \in AskOutcomes(c.conn) :
    /\ c.pc = "ask"
    /\ o.http # "200"
    /\ engineLog' = Ran(c.conn, o)
    /\ lastEvent' = [Event(c, "fail", FailText(o, "Query failed"))
                       EXCEPT !.body = [sql |-> o.sql, explanation |-> o.explanation]]
    /\ SetResult(FailResult(o, c))
    /\ loading' = FALSE
    /\ calls' = calls \ {c}
    /\ UNCHANGED <<pageVars, query, chartSuggestions, chartType, paramVars, gestures, submitted, otherPages>>

\* /visualize/suggest answers
VizOk ==
  \E c \in calls : \E suggs \in VizLists :
    /\ c.pc = "viz"
    /\ chartSuggestions' = suggs
    /\ chartType' = IF Len(suggs) > 0 THEN suggs[1] ELSE chartType
    /\ loading' = FALSE
    /\ calls' = calls \ {c}
    /\ lastEvent' = Event(c, "ok", NoStr)
    /\ UNCHANGED <<pageVars, query, result, editVars, paramVars, engineLog, gestures, submitted, otherPages>>

\* A failure of /visualize/suggest that leaves executeWithParams without its finally.
VizFail_KeepsLoading ==
  \E c \in calls :
    /\ c.pc = "viz"
    /\ calls' = calls \ {c}
    /\ lastEvent' = Event(c, "fail", "Network Error")
    /\ UNCHANGED <<pageVars, query, loading, result, chartSuggestions, chartType, editVars,
                   paramVars, engineLog, gestures, submitted, otherPages>>

\* /visualize/suggest fails: the inner catch, then the finally
VizFail ==
  \E c \in calls :
    /\ c.pc = "viz"
    /\ loading' = FALSE
    /\ calls' = calls \ {c}
    /\ lastEvent' = Event(c, "fail", "Network Error")
    /\ UNCHANGED <<pageVars, query, result, chartSuggestions, chartType, editVars,
                   paramVars, engineLog, gestures, submitted, otherPages>>

\* ------------------------------------------------------ parameter dialog
DialogVisible == showParamDialog /\ Len(detectedParams) > 0

SetParamValue ==
  \E i \in 1..Len(detectedParams) : \E v \in InputValues(detectedParams[i]) :
    /\ DialogVisible
    /\ paramValues[detectedParams[i].name] # v
    /\ Gesture("ui:setParam")
    /\ paramValues' = [paramValues EXCEPT ![detectedParams[i].name] = v]
    /\ UNCHANGED <<pageVars, askVars, editVars, detectedParams, showParamDialog,
                   pendingQuery, dialogRun, calls, engineLog>>

\* Run Query of the dialog: handleParamSubmit and executeWithParams up to the await
\* A dialog that asks with the text of the question box as it is now.
handleParamSubmitWithin_SendsQuery(n) ==
  /\ DialogVisible
  /\ ~(loading \/ RequiredMissing(detectedParams, paramValues))
  /\ TruthyText(pendingQuery)
  /\ selectedConnection # NoConn
  /\ CanStartWithin(n)
  /\ Gesture("ui:paramSubmit")
  /\ loading' = TRUE
  /\ showParamDialog' = FALSE
  /\ calls' = calls \cup
       {[BlankCall(FreeId, "params", "ask", selectedConnection)
           EXCEPT !.nl = Trim(query), !.hasParams = TRUE, !.params = paramValues,
                  !.run = dialogRun]}
  /\ UNCHANGED <<pageVars, query, result, chartSuggestions, chartType, editVars,
                 detectedParams, paramValues, pendingQuery, dialogRun, engineLog>>

\* Run Query of the dialog, as it is
handleParamSubmitWithin(n) ==
  /\ DialogVisible
  /\ ~(loading \/ RequiredMissing(detectedParams, paramValues))
  /\ TruthyText(pendingQuery)
  /\ selectedConnection # NoConn
  /\ CanStartWithin(n)
  /\ Gesture("ui:paramSubmit")
  /\ loading' = TRUE
  /\ showParamDialog' = FALSE
  /\ calls' = calls \cup
       {[BlankCall(FreeId, "params", "ask", selectedConnection)
           EXCEPT !.nl = pendingQuery, !.hasParams = TRUE, !.params = paramValues,
                  !.run = dialogRun]}
  /\ UNCHANGED <<pageVars, query, result, chartSuggestions, chartType, editVars,
                 detectedParams, paramValues, pendingQuery, dialogRun, engineLog>>

handleParamSubmit == handleParamSubmitWithin(MaxInFlight)

ParamCancel ==
  /\ DialogVisible
  /\ Gesture("ui:paramCancel")
  /\ showParamDialog' = FALSE
  /\ detectedParams' = <<>>
  /\ UNCHANGED <<pageVars, askVars, editVars, paramValues, pendingQuery, dialogRun, calls,
                 engineLog>>

\* ----------------------------------------------------- the editable SQL
\* The SQL textarea is rendered with a result, and in the error view only
\* when result.sql is truthy.
EditorVisible ==
  /\ selectedConnection # NoConn
  /\ ~result.isNull
  /\ TruthyVal(result.error) => TruthyText(result.sql)

\* onChange of the SQL textarea
EditSql ==
  \E t \in EditorTexts :
    /\ EditorVisible
    /\ t # editableSql
    /\ Gesture("ui:editSql")
    /\ editableSql' = t
    /\ isEditing' = (t # result.sql)
    /\ UNCHANGED <<pageVars, askVars, paramVars, calls, engineLog>>

\* the Reset button, shown with Run Modified SQL
ResetSql ==
  /\ EditorVisible
  /\ isEditing
  /\ Gesture("ui:resetSql")
  /\ editableSql' = OrText(result.sql, EmptyText)
  /\ isEditing' = FALSE
  /\ UNCHANGED <<pageVars, askVars, paramVars, calls, engineLog>>

\* A Run Modified SQL that goes back through generation.
RunModifiedCall_ViaAsk ==
  [BlankCall(FreeId, "runModified", "ask", selectedConnection)
     EXCEPT !.nl = Trim(query), !.clEditableSql = editableSql, !.clIsEditing = isEditing,
            !.clResultSql = DepSql(result), !.clQuery = query,
            !.clAskedNl = result.askedNl, !.run = gestures + 1]

\* The request handleRunModifiedSql starts with, and what its closure holds:
\* queryApi.execute(selectedConnection.id, editableSql.trim())
RunModifiedCall ==
  [BlankCall(FreeId, "runModified", "execute", selectedConnection)
     EXCEPT !.clEditableSql = editableSql, !.clIsEditing = isEditing,
            !.clResultSql = DepSql(result), !.clQuery = query,
            !.clAskedNl = result.askedNl, !.run = gestures + 1]

\* handleRunModifiedSql up to the execute await; the closure keeps the
\* editableSql, isEditing, result and query of the render that was clicked.
handleRunModifiedSql ==
  /\ EditorVisible
  /\ isEditing
  /\ ~loading
  /\ selectedConnection # NoConn
  /\ Trim(editableSql) # EmptyText
  /\ CanStart
  /\ Gesture("ui:runModified")
  /\ loading' = TRUE
  /\ calls' = calls \cup {RunModifiedCall}
  /\ UNCHANGED <<pageVars, query, result, chartSuggestions, chartType, editVars,
                 paramVars, engineLog>>

\* the server's side of /query/execute: validate (4.5), execute (4.6)
ExecuteOutcomes(conn, sql) ==
  {NetworkFailure}
  \cup {HttpFailure(reason) : reason \in RejectReasons(conn, sql)}
  \cup (IF RejectReasons(conn, sql) # {} THEN {} ELSE
          {[NetworkFailure EXCEPT !.http = "200", !.data = Data(conn, sql, 1),
                                  !.message = NoStr, !.ran = sql]}
          \cup {[HttpFailure("ExecutionError") EXCEPT !.ran = sql]})

\* {...prev!, ...}: spreading null yields an object without the fields
Spread(prev) == IF prev.isNull THEN [NullResult EXCEPT !.isNull = FALSE] ELSE prev

\* /query/execute answers 2xx
ExecuteOk ==
  \E c \in calls : \E o \in ExecuteOutcomes(c.conn, Request(c).sql) :
    /\ c.pc = "execute"
    /\ o.http = "200"
    /\ engineLog' = Ran(c.conn, o)
    /\ lastEvent' = Event(c, "ok", NoStr)
    /\ result' = [Spread(result) EXCEPT !.data = o.data, !.error = NoStr, !.by = c.id]
    /\ IF c.clIsEditing /\ TruthyText(c.clResultSql)
         THEN /\ calls' = (calls \ {c}) \cup {[c EXCEPT !.pc = "feedback"]}
              /\ UNCHANGED <<isEditing, loading>>
         ELSE /\ calls' = calls \ {c}
              /\ isEditing' = FALSE
              /\ loading' = FALSE
    /\ UNCHANGED <<pageVars, query, chartSuggestions, chartType, editableSql,
                   paramVars, gestures, submitted, otherPages>>

\* A catch block that still records the correction.
ExecuteFail_StillSubmits ==
  \E c \in calls : \E o \in ExecuteOutcomes(c.conn, Request(c).sql) :
    /\ c.pc = "execute"
    /\ o.http # "200"
    /\ engineLog' = Ran(c.conn, o)
    /\ lastEvent' = Event(c, "fail", OrVal(OrVal(o.detail, o.message), "Execution failed"))
    /\ result' = [Spread(result) EXCEPT
                    !.error = OrVal(OrVal(o.detail, o.message), "Execution failed"),
                    !.by = c.id]
    /\ calls' = (calls \ {c}) \cup {[c EXCEPT !.pc = "feedback"]}
    /\ UNCHANGED <<pageVars, query, loading, chartSuggestions, chartType, editVars,
                   paramVars, gestures, submitted, otherPages>>

\* /query/execute fails: the catch block of handleRunModifiedSql
ExecuteFail ==
  \E c \in calls : \E o \in ExecuteOutcomes(c.conn, Request(c).sql) :
    /\ c.pc = "execute"
    /\ o.http # "200"
    /\ engineLog' = Ran(c.conn, o)
    /\ lastEvent' = Event(c, "fail", OrVal(OrVal(o.detail, o.message), "Execution failed"))
    /\ result' = [Spread(result) EXCEPT
                    !.error = OrVal(OrVal(o.detail, o.message), "Execution failed"),
                    !.by = c.id]
    /\ loading' = FALSE
    /\ calls' = calls \ {c}
    /\ UNCHANGED <<pageVars, query, chartSuggestions, chartType, editVars,
                   paramVars, gestures, submitted, otherPages>>

\* /query/feedback answers, or fails and is only logged
FeedbackOk ==
  \E c \in calls :
    /\ c.pc = "feedback"
    /\ isEditing' = FALSE
    /\ loading' = FALSE
    /\ calls' = calls \ {c}
    /\ lastEvent' = Event(c, "ok", NoStr)
    /\ UNCHANGED <<pageVars, query, result, chartSuggestions, chartType, editableSql,
                   paramVars, engineLog, gestures, submitted, otherPages>>

\* A feedback failure that is not caught on its own and reaches the outer catch.
FeedbackFail_Uncaught ==
  \E c \in calls :
    /\ c.pc = "feedback"
    /\ result' = [Spread(result) EXCEPT !.error = "Network Error", !.by = c.id]
    /\ loading' = FALSE
    /\ calls' = calls \ {c}
    /\ lastEvent' = Event(c, "fail", "Network Error")
    /\ UNCHANGED <<pageVars, query, chartSuggestions, chartType, editVars,
                   paramVars, engineLog, gestures, submitted, otherPages>>

FeedbackFail ==
  \E c \in calls :
    /\ c.pc = "feedback"
    /\ isEditing' = FALSE
    /\ loading' = FALSE
    /\ calls' = calls \ {c}
    /\ lastEvent' = Event(c, "fail", "Network Error")
    /\ UNCHANGED <<pageVars, query, result, chartSuggestions, chartType, editableSql,
                   paramVars, engineLog, gestures, submitted, otherPages>>

\* ------------------------------------------------------- specification
Next ==
  \/ FetchConnectionsOk
  \/ FetchConnectionsFail
  \/ SelectConnection
  \/ GetSchemaOk
  \/ GetSchemaFail
  \/ SuggestionsOk
  \/ SuggestionsFail
  \/ handleRefreshSchema
  \/ RefreshOk
  \/ RefreshFail
  \/ SetQuery
  \/ handleSuggestionClick
  \/ handleSubmit
  \/ DetectOk
  \/ DetectFail
  \/ AskOk
  \/ AskFail
  \/ VizOk
  \/ VizFail
  \/ SetParamValue
  \/ handleParamSubmit
  \/ ParamCancel
  \/ EditSql
  \/ ResetSql
  \/ handleRunModifiedSql
  \/ ExecuteOk
  \/ ExecuteFail
  \/ FeedbackOk
  \/ FeedbackFail

Spec == Init /\ [][Next]_vars

\* Every API call eventually resolves or rejects: a response that is awaited
\* arrives.  Nothing obliges the user to act.
ResponseArrives ==
  \/ FetchConnectionsOk
  \/ FetchConnectionsFail
  \/ GetSchemaOk
  \/ GetSchemaFail
  \/ SuggestionsOk
  \/ SuggestionsFail
  \/ RefreshOk
  \/ RefreshFail
  \/ DetectOk
  \/ DetectFail
  \/ AskOk
  \/ AskFail
  \/ VizOk
  \/ VizFail
  \/ ExecuteOk
  \/ ExecuteFail
  \/ FeedbackOk
  \/ FeedbackFail

LiveSpec == Init /\ [][Next]_vars /\ WF_vars(ResponseArrives)

\* The connection bar and the schema browser alone, with MaxSchemaCalls handler
\* calls in flight.
SchemaNext ==
  \/ FetchConnectionsOk
  \/ FetchConnectionsFail
  \/ SelectConnectionWithin(MaxSchemaCalls)
  \/ GetSchemaOk
  \/ GetSchemaFail
  \/ SuggestionsOk
  \/ SuggestionsFail
  \/ handleRefreshSchemaWithin(MaxSchemaCalls)
  \/ RefreshOk
  \/ RefreshFail

SchemaSpec == Init /\ [][SchemaNext]_vars

\* The question box and the parameter dialog with MaxRaceCalls handler calls
\* in flight: a question can be submitted, and a connection selected, while
\* earlier requests are still awaited.
RaceNext ==
  \/ FetchConnectionsOk
  \/ FetchConnectionsFail
  \/ SelectConnectionWithin(MaxRaceCalls)
  \/ GetSchemaOk
  \/ GetSchemaFail
  \/ SuggestionsOk
  \/ SuggestionsFail
  \/ SetQuery
  \/ handleSubmitWithin(MaxRaceCalls)
  \/ DetectOk
  \/ DetectFail
  \/ AskOk
  \/ AskFail
  \/ VizOk
  \/ VizFail
  \/ SetParamValue
  \/ handleParamSubmitWithin(MaxRaceCalls)
  \/ ParamCancel

RaceSpec == Init /\ [][RaceNext]_vars

\* The editor of the generated SQL with the connection <select> still live
\* while a request is awaited; the select stays usable for MaxRunGestures
\* gestures, so that it can follow a question, an edit and a run.
RunRaceNext ==
  \/ FetchConnectionsOk
  \/ FetchConnectionsFail
  \/ SelectConnectionUpTo(MaxRaceCalls, MaxRunGestures)
  \/ GetSchemaOk
  \/ GetSchemaFail
  \/ SuggestionsOk
  \/ SuggestionsFail
  \/ SetQuery
  \/ handleSubmit
  \/ DetectOk
  \/ DetectFail
  \/ AskOk
  \/ AskFail
  \/ VizOk
  \/ VizFail
  \/ ParamCancel
  \/ EditSql
  \/ handleRunModifiedSql
  \/ ExecuteOk
  \/ ExecuteFail
  \/ FeedbackOk
  \/ FeedbackFail

RunRaceSpec == Init /\ [][RunRaceNext]_vars

\* ===================================================== ConnectionsPage
queryPageVars ==
  <<pageVars, askVars, editVars, paramVars, calls, engineLog, lastEvent, gestures, submitted,
    chart, tests>>

FreeTag(cs) == CHOOSE t \in 1..(MaxPageCalls + 1) : \A c \in cs : c.tag # t
CanCall(cs) == Cardinality(cs) < MaxPageCalls

\* fetchConnections resolves
Connections_listOk ==
  \E c \in connectionsPage.calls :
    /\ c.kind = "list"
    /\ connectionsPage' = [connectionsPage EXCEPT !.connections = Redacted(backend),
                                                  !.loading = FALSE,
                                                  !.calls = @ \ {c}]
    /\ UNCHANGED <<queryPageVars, backend, historyVars, session>>

Connections_listFail ==
  \E c \in connectionsPage.calls :
    /\ c.kind = "list"
    /\ connectionsPage' = [connectionsPage EXCEPT !.loading = FALSE, !.calls = @ \ {c}]
    /\ UNCHANGED <<queryPageVars, backend, historyVars, session>>

\* the Add Connection button of the header
Connections_openAdd ==
  /\ ~connectionsPage.loading
  /\ ~connectionsPage.showModal
  /\ connectionsPage' = [connectionsPage EXCEPT !.editingConnection = NoConn,
                                                !.formData = BlankForm,
                                                !.showModal = TRUE]
  /\ UNCHANGED <<queryPageVars, backend, historyVars, session>>

handleEdit ==
  \E conn \in connectionsPage.connections :
    /\ ~connectionsPage.loading
    /\ ~connectionsPage.showModal
    /\ connectionsPage' =
         [connectionsPage EXCEPT !.editingConnection = conn.id,
                                 !.formData = [name |-> conn.name, password |-> ""],
                                 !.showModal = TRUE]
    /\ UNCHANGED <<queryPageVars, backend, historyVars, session>>

\* onChange of the form's inputs
Connections_setFormData ==
  \E f \in [name : ConnNames \cup {""}, password : TypedPasswords \cup {""}] :
    /\ connectionsPage.showModal
    /\ f # connectionsPage.formData
    /\ \/ f.password = connectionsPage.formData.password
       \/ f.name = connectionsPage.formData.name
    /\ connectionsPage' = [connectionsPage EXCEPT !.formData = f]
    /\ UNCHANGED <<queryPageVars, backend, historyVars, session>>

\* Cancel, and the modal's onClose
Connections_closeModal ==
  /\ connectionsPage.showModal
  /\ connectionsPage' = [connectionsPage EXCEPT !.showModal = FALSE,
                                                !.editingConnection = NoConn,
                                                !.formData = BlankForm]
  /\ UNCHANGED <<queryPageVars, backend, historyVars, session>>

\* api.put(`/connections/${id}`, data) and api.post('/connections', data):
\* the body is the object passed in
SaveCall(tag, editing, data) ==
  IF editing # NoConn THEN PageCall(tag, "update", editing, data)
                      ELSE PageCall(tag, "create", NoConn, data)

\* handleSubmit of the form, up to its await; the name input is `required`
Connections_handleSubmit ==
  /\ connectionsPage.showModal
  /\ connectionsPage.formData.name # ""
  /\ CanCall(connectionsPage.calls)
  /\ connectionsPage' =
       [connectionsPage EXCEPT
          !.calls = @ \cup {SaveCall(FreeTag(connectionsPage.calls),
                                     connectionsPage.editingConnection,
                                     connectionsPage.formData)}]
  /\ UNCHANGED <<queryPageVars, backend, historyVars, session>>

\* what the rest of handleSubmit does once the save is acknowledged
AfterSave(c) ==
  [connectionsPage EXCEPT !.showModal = FALSE, !.editingConnection = NoConn,
                          !.formData = BlankForm,
                          !.calls = (@ \ {c}) \cup {PageCall(c.tag, "list", NoConn, BlankForm)}]

\* register: the credential is encrypted before storage
Registered(body) ==
  [name |-> body.name, secret |-> Encrypt(body.password)]

Connections_createOk ==
  \E c \in connectionsPage.calls : \E id \in DOMAIN backend :
    /\ c.kind = "create"
    /\ backend[id] = NoRecord
    /\ \A j \in DOMAIN backend : j < id => backend[j] # NoRecord
    /\ backend' = [backend EXCEPT ![id] = Registered(c.body)]
    /\ connectionsPage' = AfterSave(c)
    /\ UNCHANGED <<queryPageVars, historyVars, session>>

\* update: the secret is re-encrypted only if a new credential was supplied.
\* A body without the password field supplies none; a non-empty password is a
\* new credential; for a field that is present and empty both readings occur.
Updated(rec, body) ==
  {[name |-> body.name, secret |-> secret] :
     secret \in IF body.password = NoStr THEN {rec.secret}
                ELSE IF body.password = "" THEN {rec.secret, Encrypt("")}
                ELSE {Encrypt(body.password)}}

Connections_updateOk ==
  \E c \in connectionsPage.calls :
    /\ c.kind = "update"
    /\ backend[c.id] # NoRecord
    /\ \E rec \in Updated(backend[c.id], c.body) :
         backend' = [backend EXCEPT ![c.id] = rec]
    /\ connectionsPage' = AfterSave(c)
    /\ UNCHANGED <<queryPageVars, historyVars, session>>

\* the catch of handleSubmit: the failure is logged, the modal stays open
Connections_saveFail ==
  \E c \in connectionsPage.calls :
    /\ c.kind \in {"create", "update"}
    /\ connectionsPage' = [connectionsPage EXCEPT !.calls = @ \ {c}]
    /\ UNCHANGED <<queryPageVars, backend, historyVars, session>>

ConnectionsNext ==
  \/ Connections_listOk
  \/ Connections_listFail
  \/ Connections_openAdd
  \/ handleEdit
  \/ Connections_setFormData
  \/ Connections_closeModal
  \/ Connections_handleSubmit
  \/ Connections_createOk
  \/ Connections_updateOk
  \/ Connections_saveFail

ConnectionsSpec == Init /\ [][ConnectionsNext]_vars

\* ========================================================= HistoryPage
\* fetchData: Promise.all of the history and the connection list resolves
History_fetchOk ==
  \E c \in historyPage.calls :
    /\ c.kind = "fetchData"
    /\ historyPage' = [historyPage EXCEPT !.history = HistoryList(favorites),
                                          !.loading = FALSE,
                                          !.calls = @ \ {c}]
    /\ UNCHANGED <<queryPageVars, connectionsVars, favorites, session>>

History_fetchFail ==
  \E c \in historyPage.calls :
    /\ c.kind = "fetchData"
    /\ historyPage' = [historyPage EXCEPT !.loading = FALSE, !.calls = @ \ {c}]
    /\ UNCHANGED <<queryPageVars, connectionsVars, favorites, session>>

\* the star button of an entry: toggleFavorite up to its await; the call keeps
\* the `history` of the render in which the star was clicked
toggleFavorite ==
  \E id \in DOMAIN historyPage.history :
    /\ ~historyPage.loading
    /\ Cardinality(historyPage.calls) < MaxHistoryCalls
    /\ historyPage.started < MaxToggles
    /\ historyPage' =
         [historyPage EXCEPT
            !.calls = @ \cup {[tag |-> historyPage.started + 2, kind |-> "toggle", id |-> id,
                               history |-> historyPage.history]},
            !.started = @ + 1,
            !.overlapped[id] = @ \/ \E c \in historyPage.calls : c.kind = "toggle" /\ c.id = id]
    /\ UNCHANGED <<queryPageVars, connectionsVars, favorites, session>>

\* history.map(h => h.id === id ? { ...h, is_favorite: v } : h)
MapFavorite(h, id, v) ==
  [i \in DOMAIN h |-> IF h[i].id = id THEN [h[i] EXCEPT !.is_favorite = v] ELSE h[i]]

\* PUT /query/history/{id}/favorite flips the stored flag and returns it
History_toggleOk ==
  \E c \in historyPage.calls :
    /\ c.kind = "toggle"
    /\ favorites' = [favorites EXCEPT ![c.id] = ~@]
    /\ historyPage' =
         [historyPage EXCEPT
            !.history = MapFavorite(c.history, c.id, favorites'[c.id]),
            !.calls = @ \ {c},
            !.completed[c.id] = @ + 1,
            !.returned[c.id] = favorites'[c.id]]
    /\ UNCHANGED <<queryPageVars, connectionsVars, session>>

\* the request fails: the catch logs it.  The server may have flipped the flag
\* before the response was lost.
History_toggleFail ==
  \E c \in historyPage.calls : \E applied \in BOOLEAN :
    /\ c.kind = "toggle"
    /\ favorites' = IF applied THEN [favorites EXCEPT ![c.id] = ~@] ELSE favorites
    /\ historyPage' = [historyPage EXCEPT !.calls = @ \ {c}]
    /\ UNCHANGED <<queryPageVars, connectionsVars, session>>

HistoryNext ==
  \/ History_fetchOk
  \/ History_fetchFail
  \/ toggleFavorite
  \/ History_toggleOk
  \/ History_toggleFail

HistorySpec == Init /\ [][HistoryNext]_vars

\* ======================================= login, logout and the token
SessionTag == CHOOSE t \in 1..(MaxSessionCalls + 1) : \A c \in session.calls : c.tag # t
CanSend == Cardinality(session.calls) < MaxSessionCalls

\* a request as it leaves: the interceptor reads localStorage at that moment
Sent(s, kind, closure) ==
  SessionCall(CHOOSE t \in 1..(MaxSessionCalls + 1) : \A c \in s.calls : c.tag # t,
              kind, Interceptor(s.localToken), closure, s.login)

\* useAuthStore.setAuth and clearAuth
setAuth(s, user, token) == [s EXCEPT !.localToken = token, !.user = user, !.token = token]
clearAuth(s) == [s EXCEPT !.localToken = NoStr, !.user = NoStr, !.token = NoStr]

\* the response interceptor on status 401: the token is removed and the
\* browser loads /login, which ends every continuation of the page
Unauthorized(s) ==
  [s EXCEPT !.localToken = NoStr, !.user = NoStr, !.token = NoStr, !.route = "/login",
            !.loading = FALSE, !.error = "", !.calls = {}, !.login = NoStr]

Statuses == {"401", "500"}
Rejected(s, c, status, handled) ==
  IF status = "401" THEN Unauthorized(s) ELSE [handled EXCEPT !.calls = @ \ {c}]

\* App's mount effect: authApi.me().then(user => setAuth(user, token))
Validate_ok ==
  \E c \in session.calls :
    /\ c.kind = "validate"
    /\ session' = [setAuth(session, <<"user", c.token>>, c.token) EXCEPT !.calls = @ \ {c}]
    /\ UNCHANGED <<queryPageVars, connectionsVars, historyVars>>

\* .catch(() => clearAuth())
Validate_fail ==
  \E c \in session.calls : \E status \in Statuses :
    /\ c.kind = "validate"
    /\ session' = Rejected(session, c, status, clearAuth(session))
    /\ UNCHANGED <<queryPageVars, connectionsVars, historyVars>>

\* LoginPage.handleSubmit up to the login await; the button is disabled while loading
Login_handleSubmit ==
  /\ session.route = "/login"
  /\ ~session.loading
  /\ session.logins < MaxLogins
  /\ CanSend
  /\ session' = [session EXCEPT !.error = "", !.loading = TRUE, !.logins = @ + 1,
                                !.ended = "none",
                                !.calls = @ \cup {Sent(session, "login", NoStr)}]
  /\ UNCHANGED <<queryPageVars, connectionsVars, historyVars>>

\* localStorage.setItem('token', access_token), ahead of authApi.me()
StoredBeforeMe(s, token) == [s EXCEPT !.localToken = token]

\* the login call returns access_token; the token is stored and /auth/me is sent
Login_loginOk ==
  \E c \in session.calls :
    /\ c.kind = "login"
    /\ LET token == AccessToken(session.logins)
           s == [StoredBeforeMe(session, token) EXCEPT !.calls = @ \ {c}, !.login = token]
       IN session' = [s EXCEPT !.calls = @ \cup {Sent(s, "me", token)}]
    /\ UNCHANGED <<queryPageVars, connectionsVars, historyVars>>

\* the catch and finally of LoginPage.handleSubmit
LoginFailed(s) == [s EXCEPT !.error = "Login failed", !.loading = FALSE]

Login_loginFail ==
  \E c \in session.calls : \E status \in Statuses :
    /\ c.kind = "login"
    /\ session' = Rejected(session, c, status, LoginFailed(session))
    /\ UNCHANGED <<queryPageVars, connectionsVars, historyVars>>

\* /auth/me of the login answers: setAuth(user, access_token); navigate('/')
Login_meOk ==
  \E c \in session.calls :
    /\ c.kind = "me"
    /\ session' = [setAuth(session, <<"user", c.token>>, c.token)
                     EXCEPT !.calls = @ \ {c}, !.route = "/", !.loading = FALSE]
    /\ UNCHANGED <<queryPageVars, connectionsVars, historyVars>>

Login_meFail ==
  \E c \in session.calls : \E status \in Statuses :
    /\ c.kind = "me"
    /\ session' = Rejected(session, c, status, LoginFailed(session))
    /\ UNCHANGED <<queryPageVars, connectionsVars, historyVars>>

\* any request of a page behind ProtectedRoute
Api_send ==
  /\ session.route = "/"
  /\ TruthyVal(session.token)
  /\ CanSend
  /\ session' = [session EXCEPT !.calls = @ \cup {Sent(session, "api", NoStr)}]
  /\ UNCHANGED <<queryPageVars, connectionsVars, historyVars>>

Api_ok ==
  \E c \in session.calls :
    /\ c.kind = "api"
    /\ session' = [session EXCEPT !.calls = @ \ {c}]
    /\ UNCHANGED <<queryPageVars, connectionsVars, historyVars>>

Api_fail ==
  \E c \in session.calls : \E status \in Statuses :
    /\ c.kind = "api"
    /\ session' = Rejected(session, c, status, session)
    /\ UNCHANGED <<queryPageVars, connectionsVars, historyVars>>

\* Layout.handleLogout up to its await
handleLogout ==
  /\ session.route = "/"
  /\ CanSend
  /\ \A c \in session.calls : c.kind # "logout"
  /\ session' = [session EXCEPT !.calls = @ \cup {Sent(session, "logout", NoStr)}]
  /\ UNCHANGED <<queryPageVars, connectionsVars, historyVars>>

\* finally { clearAuth(); navigate('/login') }: the login is over
LoggedOut(s) == [clearAuth(s) EXCEPT !.route = "/login", !.login = NoStr]

Logout_ok ==
  \E c \in session.calls :
    /\ c.kind = "logout"
    /\ session' = [LoggedOut(session) EXCEPT !.calls = @ \ {c}, !.ended = "logout ok"]
    /\ UNCHANGED <<queryPageVars, connectionsVars, historyVars>>

\* A handleLogout without finally: a failed request leaves the session as it is.
Logout_fail_KeepsSession ==
  \E c \in session.calls : \E status \in Statuses :
    /\ c.kind = "logout"
    /\ session' = Rejected(session, c, status, [session EXCEPT !.ended = "logout failed"])
    /\ UNCHANGED <<queryPageVars, connectionsVars, historyVars>>

\* the logout request is rejected; the finally block runs all the same
Logout_fail ==
  \E c \in session.calls : \E status \in Statuses :
    /\ c.kind = "logout"
    /\ session' = Rejected(session, c, status,
                           [LoggedOut(session) EXCEPT !.ended = "logout failed"])
    /\ UNCHANGED <<queryPageVars, connectionsVars, historyVars>>

SessionNext ==
  \/ Validate_ok
  \/ Validate_fail
  \/ Login_handleSubmit
  \/ Login_loginOk
  \/ Login_loginFail
  \/ Login_meOk
  \/ Login_meFail
  \/ Api_send
  \/ Api_ok
  \/ Api_fail
  \/ handleLogout
  \/ Logout_ok
  \/ Logout_fail

SessionSpec == Init /\ [][SessionNext]_vars

\* ============================================================ chartData
otherThanChart ==
  <<pageVars, askVars, editVars, paramVars, calls, engineLog, lastEvent, gestures, submitted,
    connectionsVars, historyVars, session, tests>>

\* a result with columns and rows is set and the page renders
Chart_setResult ==
  \E columns \in SeqsUpTo(ColumnNames, MaxColumns) :
    \E rows \in SeqsUpTo([1..Len(columns) -> Cells], MaxRows) :
      /\ chart' = Charted(columns, rows)
      /\ UNCHANGED otherThanChart

\* setResult(null) and the page renders
Chart_clearResult ==
  /\ chart.hasResult
  /\ chart' = ChartInit
  /\ UNCHANGED otherThanChart

ChartNext ==
  \/ Chart_setResult
  \/ Chart_clearResult

ChartSpec == Init /\ [][ChartNext]_vars

\* ================================================= Test Connection button
otherThanTests ==
  <<pageVars, askVars, editVars, paramVars, calls, engineLog, lastEvent, gestures, submitted,
    connectionsVars, historyVars, session, chart>>

\* fetchConnections resolves with the connections the server has registered
Tests_listOk ==
  /\ tests.connections = {}
  /\ tests' = [tests EXCEPT !.connections = Conns]
  /\ UNCHANGED otherThanTests

\* handleTest up to its await: the closure keeps the testResults of the
\* render that was clicked; the button of the connection under test is disabled
handleTest ==
  \E id \in tests.connections :
    /\ tests.testing # id
    /\ tests.started < MaxTests
    /\ Cardinality(tests.calls) < MaxTestCalls
    /\ tests' = [tests EXCEPT
                   !.testing = id,
                   !.started = @ + 1,
                   !.calls = @ \cup {[test |-> tests.started + 1, id |-> id,
                                      testResults |-> tests.testResults]}]
    /\ UNCHANGED otherThanTests

\* what a completed test leaves in the history
Completed(c, outcome) ==
  IF c.test > tests.latest[c.id].test
    THEN [tests.latest EXCEPT ![c.id] = [test |-> c.test, outcome |-> outcome]]
    ELSE tests.latest

\* setTestResults({ ...testResults, [id]: outcome }) and the finally
Tested(c, outcome) ==
  [tests EXCEPT !.testResults = [c.testResults EXCEPT ![c.id] = outcome],
                !.testing = NoConn,
                !.calls = @ \ {c},
                !.latest = Completed(c, outcome)]

\* the test request answers 2xx
Test_ok ==
  \E c \in tests.calls : \E response \in TestResponses :
    /\ tests' = Tested(c, response)
    /\ UNCHANGED otherThanTests

\* the test request is rejected: the catch block
Test_fail ==
  \E c \in tests.calls : \E detail \in TestDetails :
    /\ tests' = Tested(c, [success |-> FALSE, message |-> OrVal(detail, "Test failed")])
    /\ UNCHANGED otherThanTests

TestsNext ==
  \/ Tests_listOk
  \/ handleTest
  \/ Test_ok
  \/ Test_fail

TestsSpec == Init /\ [][TestsNext]_vars

\* ============================================================== claims
\* A call whose awaited response arrives in this step.
Answered(c) == c \in calls /\ c \notin calls'

NonReadOn(conn, s) == IsReadonly(conn) /\ LeadingKeyword(s) \notin ReadKeywords

\* The Execution Engine never ran a non-read statement on a read-only connection.
NoNonReadExecuted ==
  engineLog # NoExec => ~NonReadOn(engineLog.conn, engineLog.sql)

\* The Execution Engine never ran a text holding a second top-level statement.
NoMultiExecuted ==
  engineLog # NoExec => ~HasSecondStatement(engineLog.sql)

\* What a step that answers an execute or ask request reports for statement s:
\* the error now shown is one of `reasons` and the engine was not invoked.
RejectedWith(reasons) == result'.error \in reasons /\ engineLog' = engineLog

\* The statement a response is about: the one sent to execute, or the one
\* the ask response carries.
ReachedServer == lastEvent'.detail # "Network Error"

C1_Step(reasonsFor(_)) ==
  \A c \in calls :
    /\ (Answered(c) /\ c.pc = "execute" /\ ReachedServer
          /\ NonReadOn(c.conn, Request(c).sql))
         => RejectedWith(reasonsFor(Request(c).sql))
    /\ (Answered(c) /\ c.pc = "ask" /\ ReachedServer /\ TruthyText(result'.sql)
          /\ NonReadOn(c.conn, result'.sql))
         => RejectedWith(reasonsFor(result'.sql))

OnlyReadOnlyViolation(s) == {"ReadOnlyViolation"}
ReadOnlyViolationOrMulti(s) ==
  {"ReadOnlyViolation"} \cup (IF HasSecondStatement(s) THEN {"MultiStatementRejected"} ELSE {})

C2_Step(reasonsFor(_, _)) ==
  \A c \in calls :
    (Answered(c) /\ c.pc = "execute" /\ ReachedServer /\ HasSecondStatement(Request(c).sql))
      => RejectedWith(reasonsFor(c.conn, Request(c).sql))

OnlyMulti(conn, s) == {"MultiStatementRejected"}
MultiOrReadOnly(conn, s) ==
  {"MultiStatementRejected"} \cup (IF NonReadOn(conn, s) THEN {"ReadOnlyViolation"} ELSE {})

C3_DetectionFailureFallsBack ==
  (lastEvent.pc = "detect" /\ lastEvent.outcome = "fail")
    => /\ \E c \in calls : c.kind = "submit" /\ Request(c).path = "/query/ask"
                           /\ ~Request(c).hasParams
       /\ ~TruthyVal(result.error)

\* C4: a detect-parameters answer with needs_parameters = true and an empty
\* list does not open the dialog; the run sends the ask request at once, with
\* the same question and no parameters.
C4_EmptyParametersMeanNone ==
  [][(lastEvent'.pc = "detect" /\ lastEvent'.detail = "needs-empty")
       => \E c \in calls :
            /\ Answered(c) /\ c.pc = "detect"
            /\ LET a == [c EXCEPT !.pc = "ask"] IN
                 /\ a \in calls'
                 /\ Request(a).path = "/query/ask"
                 /\ Request(a).natural_language = Request(c).natural_language
                 /\ Request(a).connection_id = Request(c).connection_id
                 /\ ~Request(a).hasParams
            /\ ~showParamDialog'
            /\ UNCHANGED <<detectedParams, paramValues, pendingQuery>>
            /\ loading']_vars

C4_Witness ==
  /\ lastEvent.pc = "detect"
  /\ lastEvent.detail = "needs-empty"
  /\ ~showParamDialog
  /\ \E c \in calls : c.kind = "submit" /\ Request(c).path = "/query/ask" /\ ~Request(c).hasParams

\* C5: no run has two requests in flight; an ask request is sent either in the
\* step that receives the detect-parameters response of its run, or from the
\* dialog which that response opened, and the dialog is opened by nothing else.
OneRequestPerRun ==
  \A c1, c2 \in calls : (c1.run # 0 /\ c1.run = c2.run) => c1 = c2

DetectAnsweredNow(run) ==
  \E c \in calls : Answered(c) /\ c.pc = "detect" /\ c.run = run /\ lastEvent'.outcome = "ok"

C5_StrictlySequential ==
  /\ []OneRequestPerRun
  /\ [][/\ \A a \in calls' :
             (a.pc = "ask" /\ a \notin calls)
               => \/ DetectAnsweredNow(a.run)
                  \/ (a.kind = "params" /\ showParamDialog /\ a.run = dialogRun
                        /\ \A c \in calls : c.run # a.run)
        /\ (showParamDialog' /\ (~showParamDialog \/ dialogRun' # dialogRun))
             => DetectAnsweredNow(dialogRun')]_vars

\* the ask request of a run is in flight after its detect-parameters response
C5_Witness ==
  /\ lastEvent.pc = "detect"
  /\ lastEvent.outcome = "ok"
  /\ \E c \in calls : c.kind = "submit" /\ c.pc = "ask" /\ c.run # 0
                      /\ \A d \in calls : d.run = c.run => d = c

\* C6: a feedback request is sent only in the step in which the execute
\* request of the same Run Modified SQL returns successfully, after the engine
\* ran the edited statement; a failed or rejected execute sends none.
C6_FeedbackOnlyAfterSuccess ==
  [][\A f \in calls' :
       (f.pc = "feedback" /\ f \notin calls)
         => \E c \in calls :
              /\ Answered(c) /\ c.pc = "execute"
              /\ f = [c EXCEPT !.pc = "feedback"]
              /\ lastEvent'.outcome = "ok"
              /\ engineLog' = [conn |-> c.conn, sql |-> Request(c).sql]
              /\ result'.error = NoStr]_vars

C6_Witness ==
  /\ lastEvent.pc = "execute"
  /\ lastEvent.outcome = "ok"
  /\ \E f \in calls : f.pc = "feedback" /\ engineLog.sql = Request(f).corrected_sql

\* C7 as stated: in every feedback request corrected_sql differs from original_sql.
C7_CorrectionDiffers ==
  \A c \in calls :
    Request(c).path = "/query/feedback" => Request(c).corrected_sql # Request(c).original_sql

\* C8 as stated: a feedback request carries the question that was asked and
\* produced original_sql, the SQL the ask returned, and the text just executed.
C8_FeedbackCarriesOriginals ==
  [][\A f \in calls' :
       (f.pc = "feedback" /\ f \notin calls)
         => /\ Request(f).natural_language = f.clAskedNl
            /\ Request(f).original_sql = f.clResultSql
            /\ Request(f).corrected_sql = engineLog'.sql]_vars

RunModifiedOnlyExecutes ==
  \A c \in calls :
    c.kind = "runModified" => Request(c).path \in {"/query/execute", "/query/feedback"}

C10_ReentersAtExecution ==
  /\ []RunModifiedOnlyExecutes
  /\ [][/\ lastEvent'.kind = "ui:runModified"
             => \E n \in calls' :
                  /\ n \notin calls
                  /\ calls' = calls \cup {n}
                  /\ Request(n).path = "/query/execute"
                  /\ Request(n).sql = Trim(editableSql)
                  /\ Request(n).connection_id = selectedConnection
        /\ lastEvent'.kind = "runModified"
             => \A n \in calls' \ calls : n.kind = "runModified"]_vars

\* Run Modified SQL was clicked while the previous attempt shows a rejection.
C10_Witness ==
  /\ lastEvent.kind = "ui:runModified"
  /\ result.error \in {"ReadOnlyViolation", "ExecutionError"}
  /\ \E c \in calls : c.kind = "runModified" /\ Request(c).path = "/query/execute"
                      /\ Request(c).sql = Trim(editableSql)

\* C11: when an ask request fails and the response body carries sql and/or
\* explanation, the result set by that step holds that sql and that explanation
\* (a part the body lacks is shown empty) together with a non-empty error.
C11_PartialContextKept ==
  [][\A c \in calls :
       (Answered(c) /\ c.pc = "ask" /\ lastEvent'.outcome = "fail"
          /\ (TruthyText(lastEvent'.body.sql) \/ TruthyVal(lastEvent'.body.explanation)))
         => /\ ~result'.isNull
            /\ result'.sql = OrText(lastEvent'.body.sql, EmptyText)
            /\ result'.explanation = OrVal(lastEvent'.body.explanation, "")
            /\ TruthyVal(result'.error)]_vars

\* generation failed with partial SQL: the SQL is on screen with the error
C11_Witness ==
  /\ lastEvent.pc = "ask"
  /\ lastEvent.outcome = "fail"
  /\ lastEvent.body.sql = T_sel
  /\ result.sql = T_sel
  /\ result.error = "GenerationError"

\* C12: the step that handles a failed ask or execute request stores one error
\* in result, ends loading and sends nothing; an ask or execute request is only
\* ever sent by a user gesture or by the detect-parameters response of the run
\* the user submitted.
C12_NoAutomaticRetry ==
  [][/\ \A c \in calls :
          (Answered(c) /\ c.pc \in {"ask", "execute"} /\ lastEvent'.outcome = "fail")
            => /\ calls' = calls \ {c}
               /\ TruthyVal(result'.error)
               /\ ~loading'
     /\ \A n \in calls' \ calls :
          n.pc \in {"ask", "execute"}
            => \/ lastEvent'.pc = "ui"
               \/ DetectAnsweredNow(n.run)]_vars

\* an execute request failed in the engine: the error is shown, nothing is in flight
C12_Witness ==
  /\ lastEvent.pc = "execute"
  /\ lastEvent.outcome = "fail"
  /\ result.error = "ExecutionError"
  /\ engineLog.sql = Trim(editableSql)
  /\ calls = {}
  /\ ~loading

\* C13 as stated: an update request sent from the edit form with no new
\* password entered carries no password value: the field is left out of the body.
C13_UpdateOmitsPassword ==
  \A c \in connectionsPage.calls :
    c.kind = "update" => c.body.password # ""

\* C14 as stated: once two toggles of the same entry, the second started after
\* the first completed, have both returned and nothing is in flight, the entry
\* shows the favorite state it had when the page was opened.
C14_TwoTogglesRestore ==
  \A id \in DOMAIN historyPage.history :
    (historyPage.calls = {} /\ historyPage.completed[id] = 2 /\ ~historyPage.overlapped[id])
      => historyPage.history[id].is_favorite = OriginalFavorite(id)

\* C15 as stated: once the toggles in flight have completed, every entry shows
\* the value its own last toggle returned (or, never toggled, the value it was
\* listed with), and no other field of any entry has changed.
C15_OnlyOwnFlagChanges ==
  historyPage.calls = {}
    => \A id \in DOMAIN historyPage.history :
         historyPage.history[id] = HistoryEntry(id, historyPage.returned[id])

\* C16: the schema held is always null or one complete response for one
\* connection, and the step that handles a failed refresh leaves it as it is.
SchemaIsWhole == schema \in {NoSchema} \cup Snapshots

C16_SnapshotReplacedWholesale ==
  /\ []SchemaIsWhole
  /\ [][\A c \in calls :
          (Answered(c) /\ c.pc = "refreshSchema" /\ lastEvent'.outcome = "fail")
            => schema' = schema]_vars

\* a refresh failed while a snapshot with two tables was held
C16_Witness ==
  /\ lastEvent.pc = "refreshSchema"
  /\ lastEvent.outcome = "fail"
  /\ schema = Snapshot(selectedConnection, 2)

\* C17 as stated: whenever loadingSchema is false and a schema is held, it is
\* the snapshot fetched for the connection now selected.
C17_SchemaOfSelectedConnection ==
  (~loadingSchema /\ schema # NoSchema) => schema.conn = selectedConnection

\* C18 as stated: every request sent after a login call succeeded, and before
\* a logout or a 401 response ended that login, carries the token that login
\* call returned as Authorization: Bearer.
C18_RequestsCarryLoginToken ==
  \A c \in session.calls :
    c.login # NoStr => c.authorization = Bearer(c.login)

\* C19: in the step in which detect-parameters answers and the parameter
\* dialog opens, each detected parameter starts with its supplied default when
\* that is neither null nor undefined, otherwise with today's date when its
\* type is date, otherwise with no value.
DialogOpens ==
  /\ lastEvent'.pc = "detect"
  /\ lastEvent'.outcome = "ok"
  /\ showParamDialog'

InitialValue(p) ==
  IF p.default \notin {NullStr, NoStr} THEN p.default
  ELSE IF p.type = "date" THEN Today
  ELSE NoStr

C19_DialogOpensWithDefaults ==
  [][DialogOpens =>
       \A i \in 1..Len(detectedParams') :
         paramValues'[detectedParams'[i].name] = InitialValue(detectedParams'[i])]_vars

\* The dialog has just opened on a number whose supplied default is 0 and a
\* date whose default was supplied: both start with their defaults.
C19_Witness ==
  /\ showParamDialog
  /\ lastEvent.pc = "detect"
  /\ detectedParams = <<PYearZero, PSinceGiven>>
  /\ paramValues["year"] = "#0"
  /\ paramValues["since"] = "2020-01-01"

\* C20 as stated: in every state that has a result, isEditing holds exactly
\* when the editor text differs from the generated SQL of the result.
C20_ModifiedIffDiffers ==
  ~result.isNull => (isEditing <=> editableSql # result.sql)

\* C21 as stated: in the step in which /query/execute answers a Run Modified
\* SQL with success, the result takes the data of the statement that was
\* executed and its error is cleared, while its sql and explanation stay as the
\* ask returned them; in the step in which it fails, only the error of the
\* result changes.
ExecuteAnswers(outcome) ==
  /\ lastEvent'.pc = "execute"
  /\ lastEvent'.outcome = outcome
  /\ calls' # calls

C21_RunKeepsSqlAndExplanation ==
  [][/\ ExecuteAnswers("ok") =>
          /\ result'.data = Data(engineLog'.conn, engineLog'.sql, 1)
          /\ result'.error = NoStr
          /\ result'.sql = result.sql
          /\ result'.explanation = result.explanation
          /\ result'.askedNl = result.askedNl
     /\ ExecuteAnswers("fail") =>
          /\ [result' EXCEPT !.error = result.error, !.by = result.by] = result
          /\ TruthyVal(result'.error)]_vars

\* C22 as stated: chartData holds one record per row, in row order, and the
\* record of a row maps every columns[i] to cell i of that row, whatever the
\* column list, repeated names included.
C22_ChartDataAligned ==
  chart.hasResult =>
    /\ Len(chart.chartData) = Len(chart.rows)
    /\ \A r \in 1..Len(chart.rows) : \A i \in 1..Len(chart.columns) :
         chart.chartData[r][chart.columns[i]] = chart.rows[r][i]

\* the run of the question submitted last, 0 before the first submission
RECURSIVE LatestIn(_, _)
LatestIn(sub, r) == IF r = 0 \/ sub[r] # NoConn THEN r ELSE LatestIn(sub, r - 1)
LatestSubmitted == LatestIn(submitted, MaxGestures)

\* C23 as stated: once no request is in flight, the result displayed, if any,
\* is the outcome of the question that was submitted last.
C23_LatestSubmissionShown ==
  (calls = {} /\ ~result.isNull) => result.run = LatestSubmitted

\* C24 as stated: the ask request sent from the parameter dialog goes to the
\* connection the question of that run was submitted on (the one its
\* detect-parameters request was sent to), and a result that shows data
\* holds data of the connection that is selected.
C24_SameConnectionThroughout ==
  /\ \A c \in calls : c.kind = "params" => c.conn = submitted[c.run]
  /\ (~result.isNull /\ result.data # NoData) => result.data[1] = selectedConnection

\* C25: the ask request sent from the parameter dialog carries the question
\* that was sent to detect-parameters in the run that opened the dialog:
\* pendingQuery is written only when a detect-parameters response opens the
\* dialog, and then with the question of that request; an edit of the question
\* box leaves it alone; Run Query sends it; Cancel closes the dialog and sends
\* nothing.
DetectOpened ==
  \E c \in calls :
    /\ c.pc = "detect"
    /\ c \notin calls'
    /\ showParamDialog'
    /\ dialogRun' = c.run
    /\ pendingQuery' = Request(c).natural_language

C25_DialogAsksPendingQuery ==
  [][/\ (pendingQuery' # pendingQuery \/ dialogRun' # dialogRun) => DetectOpened
     /\ \A n \in calls' \ calls :
          (n.kind = "params" /\ Request(n).path = "/query/ask") =>
            /\ Request(n).natural_language = pendingQuery
            /\ n.run = dialogRun
     /\ lastEvent'.kind = "ui:paramCancel" =>
          /\ ~showParamDialog'
          /\ calls' = calls]_vars

\* Run Query was clicked after the question box had been edited under the
\* open dialog: the ask request in flight carries the question as submitted.
C25_Witness ==
  \E c \in calls :
    /\ c.kind = "params"
    /\ c.pc = "ask"
    /\ Request(c).natural_language = pendingQuery
    /\ Request(c).natural_language # Trim(query)

\* a value was supplied for a parameter: a text or date that is not empty, or
\* any number, 0 included
Supplied(v) == v \notin {NoStr, NullStr, ""}

\* disabled={loading || detectedParams.some(p => p.required && !paramValues[p.name])}
RunQueryEnabled == ~(loading \/ RequiredMissing(detectedParams, paramValues))

\* C26 as stated: while the parameter dialog is shown, Run Query is enabled
\* exactly when loading is false and every required parameter has a supplied
\* value, whatever its kind and value.
C26_RunQueryEnabledIffSupplied ==
  DialogVisible =>
    (RunQueryEnabled <=>
       /\ ~loading
       /\ \A i \in 1..Len(detectedParams) :
            detectedParams[i].required => Supplied(paramValues[detectedParams[i].name]))

\* C27 as stated: once every test that was started has completed, testResults
\* holds for every tested connection the outcome of that connection's own
\* test started last.
C27_EachConnectionKeepsItsOutcome ==
  tests.calls = {} =>
    \A id \in Conns :
      tests.latest[id].test # 0 => tests.testResults[id] = tests.latest[id].outcome

\* a step in which a login attempt ends in the catch of handleSubmit
LoginAttemptFails ==
  \E c \in session.calls :
    /\ c.kind \in {"login", "me"}
    /\ c \notin session'.calls
    /\ session'.error = "Login failed"

\* C28 as stated: a login attempt that ends in failure leaves no token in
\* localStorage and no user in the auth store.
C28_FailedLoginLeavesNoToken ==
  [][LoginAttemptFails => (session'.localToken = NoStr /\ session'.user = NoStr)]_vars

\* a step in which handleLogout finishes: its finally block has run
LogoutFinishes ==
  \E c \in session.calls :
    /\ c.kind = "logout"
    /\ c \notin session'.calls

\* C29: when handleLogout finishes, whether the logout request succeeded or
\* failed, the auth store holds no user and no token and localStorage holds
\* no token.
C29_LogoutClearsSession ==
  [][LogoutFinishes =>
       /\ session'.user = NoStr
       /\ session'.token = NoStr
       /\ session'.localToken = NoStr]_vars

\* A logout whose request failed has finished: the page is back at /login
\* and nothing of the session is left.
C29_Witness ==
  /\ session.ended = "logout failed"
  /\ session.route = "/login"
  /\ session.localToken = NoStr
  /\ session.user = NoStr
  /\ session.token = NoStr

\* C30: provided every API call is answered, loading never sticks: whenever
\* loading is true (a question submit, a dialog submit or a Run Modified SQL
\* has started), a state with loading = false follows.
C30_LoadingEnds == loading ~> ~loading

\* The deepest failure path has ended: a Run Modified SQL whose feedback
\* request failed has left loading false with nothing in flight.
C30_Witness ==
  /\ ~loading
  /\ calls = {}
  /\ lastEvent.pc = "feedback"
  /\ lastEvent.outcome = "fail"

====
